---- MODULE Spec2Model ----
(***************************************************************************)
(* Model of the MemoryLayerSaver plugin's lifecycle coordinator            *)
(* (memory_layer_saver.py) and of its base class LayerConnector            *)
(* (layer_connector.py).                                                   *)
(*                                                                         *)
(* The coordinator keeps one flag, has_modified_layers, and reacts to the  *)
(* host's signals: layerWasAdded, readProject, writeProject, cleared and   *)
(* the six committed* signals of every layer it connected to.  A Qt signal *)
(* connection is modelled as a count of connected slots: connect adds one, *)
(* disconnect removes one and raises when there is none.                   *)
(*                                                                         *)
(* Paths are sequences of string tokens; "" is the empty sequence and      *)
(* name + ".mldata" is the sequence with the token ".mldata" appended.     *)
(***************************************************************************)
EXTENDS Integers, Sequences, FiniteSets, TLC

\* ---------------------------------------------------------------- bounds
NumLayers == 2
MaxAttached == 2

Layers == 1..NumLayers

\* ------------------------------------------------------- program constants
AttachmentVersion == 32200
AttachmentName == "layers.mldata"
SidecarSuffix == ".mldata"

\* The six committed* signals connect_layer subscribes to.
MutationKinds ==
    {"committedAttributesDeleted", "committedAttributesAdded",
     "committedFeaturesRemoved", "committedFeaturesAdded",
     "committedAttributeValuesChanges", "committedGeometriesChanges"}

\* The project signals the coordinator connects to.
HostSignals == {"layerWasAdded", "readProject", "writeProject", "cleared"}

\* Host versions on both sides of the attachment threshold.
Versions == {AttachmentVersion - 1, AttachmentVersion}

\* Project file names: none yet, or a project file.
FileNames == {<<>>, <<"proj.qgs">>}

\* Names of files attached to the project: two that end with layers.mldata,
\* one that ends with .mldata only, one that is no archive at all.
AttachedNames ==
    {<<"1", AttachmentName>>, <<"2", AttachmentName>>,
     <<"x", SidecarSuffix>>, <<"notes.txt">>}

\* Outcomes of opening the archive and running the Writer / the Reader.
WriterOutcomes == {"ok", "fail"}
ReaderOutcomes == {"ok", "fail"}

\* The feature content of the live layers, taken as a whole: two values are
\* enough to tell that it changed.
Contents == {"edited", "archived"}

VARIABLES
    has_modified_layers, \* MemoryLayerSaver.has_modified_layers
    attached,            \* LayerConnector.attached
    conn,                \* conn[l][k]: slots of this object on layer l, signal k
    hostConn,            \* hostConn[s]: slots of this object on project signal s
    mapLayers,           \* QgsProject.instance().mapLayers()
    saved,               \* saved[l]: what Settings.is_saved_layer(l) answers now
    isDirty,             \* QgsProject.instance().isDirty()
    fileName,            \* QgsProject.instance().fileName()
    versionInt,          \* Qgis.versionInt()
    attachedFiles,       \* QgsProject.instance().attachedFiles(), in order
    files,               \* paths for which QFile(path).exists()
    unloaded,            \* the host has called unload()
    pending,             \* a handled mutation has not yet met a save request
    last                 \* what the last step did (observation only)

vars == <<has_modified_layers, attached, conn, hostConn, mapLayers, saved,
          isDirty, fileName, versionInt, attachedFiles, files, unloaded,
          pending, last>>

\* --------------------------------------------------------------- helpers
NoConn == [k \in MutationKinds |-> 0]

RECURSIVE SortedSeq(_)
\* The values of mapLayers() in key order.
SortedSeq(S) ==
    IF S = {} THEN <<>>
    ELSE LET m == CHOOSE x \in S : \A y \in S : x <= y
         IN <<m>> \o SortedSeq(S \ {m})

\* str.endswith on token sequences.
EndsWith(path, token) == Len(path) > 0 /\ path[Len(path)] = token

\* The state a handler runs on: the coordinator's fields, the host state it
\* writes, and what the handler has done so far.  The coordinator keeps no
\* copy of the layers' feature content and never reads it: features is the
\* content the layers hold while the handler runs, origin what they held
\* when it started, incoming what the archive holds.
Self ==
    [conn |-> conn, hml |-> has_modified_layers, hostConn |-> hostConn,
     attached |-> attached, dirty |-> isDirty, att |-> attachedFiles,
     files |-> files, features |-> "edited", origin |-> "edited",
     incoming |-> "edited", raised |-> FALSE, message |-> FALSE,
     writer |-> "none", written |-> {}, reader |-> "none",
     existed |-> FALSE, resolved |-> FALSE]

\* Self when the layers hold content c and the archive holds content i.
SelfWith(c, i) ==
    [Self EXCEPT !.features = c, !.origin = c, !.incoming = i]

\* The handler's result becomes the next state.
Becomes(st) ==
    /\ conn' = st.conn
    /\ has_modified_layers' = st.hml
    /\ hostConn' = st.hostConn
    /\ attached' = st.attached
    /\ isDirty' = st.dirty
    /\ attachedFiles' = st.att
    /\ files' = st.files

\* The observation of a step: the host event, whether a slot of the
\* coordinator ran for it, the eligibility of the layer it was about, the flag
\* before it, and what the slot did (touched: it changed the layers' feature
\* content).  wasPending and prevSave are filled in by writeProject only.
Obs(op, handled, eligible, st) ==
    [op |-> op, handled |-> handled, eligible |-> eligible,
     before |-> has_modified_layers, wasPending |-> FALSE, prevSave |-> "no",
     writer |-> st.writer, written |-> st.written, reader |-> st.reader,
     existed |-> st.existed, resolved |-> st.resolved,
     created |-> Len(st.att) > Len(attachedFiles),
     touched |-> st.features # st.origin,
     raised |-> st.raised, message |-> st.message]

\* ------------------------------------------------------------ collaborators
\* Settings.is_saved_layer
is_saved_layer(l) == saved[l]

\* QgsProject.createAttachedFile(nameTemplate): a new, uniquely named file
\* whose name ends with the template, registered as the last attachment.
createAttachedFile(st) ==
    LET new == <<ToString(Len(st.att) + 1), AttachmentName>>
    IN [st EXCEPT !.att = Append(@, new), !.files = @ \cup {new}]

\* with Writer(filename) as writer: writer.write_layers(layers).  Either the
\* whole archive is written or the target is untouched and the error
\* propagates.
write_layers(st, filename, layers, w) ==
    IF w = "ok"
    THEN [st EXCEPT !.files = @ \cup {filename}, !.writer = "ok",
                    !.written = layers]
    ELSE [st EXCEPT !.writer = "fail", !.written = layers, !.raised = TRUE]

\* with Reader(filename) as reader: reader.read_layers(layers).  The archive
\* is read whole before any layer is populated: a Reader that raises has
\* replaced nothing, one that returns has put the archive's content into the
\* layers.
read_layers(st, filename, layers, r) ==
    IF r = "ok"
    THEN [st EXCEPT !.reader = "ok", !.features = st.incoming]
    ELSE [st EXCEPT !.reader = "fail", !.raised = TRUE]

\* -------------------------------------------------------- MemoryLayerSaver
\* memory_layers without the eligibility filter.
memory_layers_all == mapLayers

memory_layers == {l \in mapLayers : is_saved_layer(l)}

RECURSIVE FirstArchive(_)
\* The loop over attachedFiles(): the first name ending with layers.mldata.
FirstArchive(att) ==
    IF att = <<>> THEN <<>>
    ELSE IF EndsWith(Head(att), AttachmentName) THEN Head(att)
    ELSE FirstArchive(Tail(att))

\* memory_layer_file that looks for the attachment on every host version.
memory_layer_file_no_version(att) ==
    IF fileName = <<>> THEN <<>>
    ELSE IF FirstArchive(att) # <<>> THEN FirstArchive(att)
    ELSE Append(fileName, SidecarSuffix)

memory_layer_file(att) ==
    IF fileName = <<>> THEN <<>>
    ELSE IF versionInt >= AttachmentVersion /\ FirstArchive(att) # <<>>
         THEN FirstArchive(att)
    ELSE Append(fileName, SidecarSuffix)

\* set_project_dirty that only marks the project.
set_project_dirty_flagless(st) == [st EXCEPT !.dirty = TRUE]

\* set_project_dirty that only sets the coordinator's flag.
set_project_dirty_flag_only(st) == [st EXCEPT !.hml = TRUE]

set_project_dirty(st) == [st EXCEPT !.hml = TRUE, !.dirty = TRUE]

\* on_cleared that leaves the flag alone.
on_cleared_noop(st) == st

on_cleared(st) == [st EXCEPT !.hml = FALSE]

\* Connecting never fails; a second connection adds a second slot.
connect_layer(st, l) ==
    IF is_saved_layer(l)
    THEN [st EXCEPT !.conn[l] = [k \in MutationKinds |-> @[k] + 1],
                    !.hml = TRUE]
    ELSE st

\* Disconnecting a slot that is not connected raises.
disconnect_layer(st, l) ==
    IF is_saved_layer(l)
    THEN IF \E k \in MutationKinds : st.conn[l][k] = 0
         THEN [st EXCEPT !.raised = TRUE]
         ELSE [st EXCEPT !.conn[l] = [k \in MutationKinds |-> @[k] - 1],
                         !.hml = TRUE]
    ELSE st

\* load_data without the file.exists() test.
load_data_no_exists(st, r) ==
    LET filename == memory_layer_file(st.att)
        s1 == [st EXCEPT !.resolved = TRUE]
        s3 == [s1 EXCEPT !.existed = filename \in s1.files]
        layers == memory_layers
        s2 == IF layers # {}
              THEN LET s4 == read_layers(s3, filename, layers, r)
                   IN IF s4.raised
                      THEN [s4 EXCEPT !.raised = FALSE, !.message = TRUE]
                      ELSE s4
              ELSE s3
    IN [s2 EXCEPT !.hml = FALSE]

\* load_data that clears the flag inside the file.exists() branch only.
load_data_clears_if_exists(st, r) ==
    LET filename == memory_layer_file(st.att)
        s1 == [st EXCEPT !.resolved = TRUE]
    IN IF filename \in s1.files
       THEN LET s3 == [s1 EXCEPT !.existed = TRUE]
                layers == memory_layers
                s2 == IF layers # {}
                      THEN LET s4 == read_layers(s3, filename, layers, r)
                           IN IF s4.raised
                              THEN [s4 EXCEPT !.raised = FALSE,
                                              !.message = TRUE]
                              ELSE s4
                      ELSE s3
            IN [s2 EXCEPT !.hml = FALSE]
       ELSE s1

load_data(st, r) ==
    LET filename == memory_layer_file(st.att)
        s1 == [st EXCEPT !.resolved = TRUE]
        s2 == IF filename \in s1.files
              THEN LET s3 == [s1 EXCEPT !.existed = TRUE]
                       layers == memory_layers
                   IN IF layers # {}
                      THEN LET s4 == read_layers(s3, filename, layers, r)
                           IN IF s4.raised
                              THEN [s4 EXCEPT !.raised = FALSE,
                                              !.message = TRUE]
                              ELSE s4
                      ELSE s3
              ELSE s1
    IN [s2 EXCEPT !.hml = FALSE]

\* save_data without the early return on a clean flag.
save_data_always(st, w) ==
    LET s1 == IF versionInt >= AttachmentVersion
              THEN createAttachedFile(st) ELSE st
        filename == memory_layer_file(s1.att)
        s2 == [s1 EXCEPT !.resolved = TRUE]
        layers == memory_layers
        s3 == IF layers # {}
              THEN write_layers(s2, filename, layers, w) ELSE s2
    IN IF s3.raised THEN s3 ELSE [s3 EXCEPT !.hml = FALSE]

\* save_data that never clears the flag.
save_data_keeps_flag(st, w) ==
    IF ~st.hml THEN st
    ELSE LET s1 == IF versionInt >= AttachmentVersion
                   THEN createAttachedFile(st) ELSE st
             filename == memory_layer_file(s1.att)
             s2 == [s1 EXCEPT !.resolved = TRUE]
             layers == memory_layers
         IN IF layers # {}
            THEN write_layers(s2, filename, layers, w) ELSE s2

\* save_data that clears the flag in a finally clause.
save_data_finally(st, w) ==
    IF ~st.hml THEN st
    ELSE LET s1 == IF versionInt >= AttachmentVersion
                   THEN createAttachedFile(st) ELSE st
             filename == memory_layer_file(s1.att)
             s2 == [s1 EXCEPT !.resolved = TRUE]
             layers == memory_layers
             s3 == IF layers # {}
                   THEN write_layers(s2, filename, layers, w) ELSE s2
         IN [s3 EXCEPT !.hml = FALSE]

save_data(st, w) ==
    IF ~st.hml THEN st
    ELSE LET s1 == IF versionInt >= AttachmentVersion
                   THEN createAttachedFile(st) ELSE st
             filename == memory_layer_file(s1.att)
             s2 == [s1 EXCEPT !.resolved = TRUE]
             layers == memory_layers
             s3 == IF layers # {}
                   THEN write_layers(s2, filename, layers, w) ELSE s2
         IN IF s3.raised THEN s3 ELSE [s3 EXCEPT !.hml = FALSE]

\* ---------------------------------------------------------- LayerConnector
RECURSIVE connect_layers(_, _)
connect_layers(st, ls) ==
    IF ls = <<>> THEN st
    ELSE connect_layers(connect_layer(st, Head(ls)), Tail(ls))

RECURSIVE disconnect_layers(_, _)
disconnect_layers(st, ls) ==
    IF ls = <<>> \/ st.raised THEN st
    ELSE disconnect_layers(disconnect_layer(st, Head(ls)), Tail(ls))

\* signal.disconnect(slot) on a project signal.
disconnect(st, sig) ==
    IF st.hostConn[sig] = 0 THEN [st EXCEPT !.raised = TRUE]
    ELSE [st EXCEPT !.hostConn[sig] = @ - 1]

attach(st) ==
    LET s1 == [st EXCEPT !.hostConn["layerWasAdded"] = @ + 1]
        s2 == connect_layers(s1, SortedSeq(mapLayers))
    IN [s2 EXCEPT !.attached = TRUE]

detach(st) ==
    IF ~st.attached THEN st
    ELSE LET s1 == disconnect(st, "layerWasAdded")
         IN IF s1.raised THEN s1
            ELSE disconnect_layers(s1, SortedSeq(mapLayers))

unload(st) ==
    LET s1 == detach(st)
        s2 == IF s1.raised THEN s1 ELSE disconnect(s1, "readProject")
    IN IF s2.raised THEN s2 ELSE disconnect(s2, "writeProject")

\* ------------------------------------------------------------------ Init
\* __init__ that queries the project's status before the connector attaches.
MemoryLayerSaver_init_flag_first(st) ==
    LET s1 == attach([st EXCEPT !.attached = FALSE, !.hml = st.dirty])
    IN [s1 EXCEPT !.hostConn["readProject"] = @ + 1,
                  !.hostConn["writeProject"] = @ + 1,
                  !.hostConn["cleared"] = @ + 1]

\* MemoryLayerSaver.__init__ run on a project in any state.
MemoryLayerSaver_init(st) ==
    LET s1 == attach([st EXCEPT !.attached = FALSE])
    IN [s1 EXCEPT !.hml = st.dirty,
                  !.hostConn["readProject"] = @ + 1,
                  !.hostConn["writeProject"] = @ + 1,
                  !.hostConn["cleared"] = @ + 1]

Init ==
    /\ mapLayers \in SUBSET Layers
    /\ saved \in [Layers -> BOOLEAN]
    /\ isDirty \in BOOLEAN
    /\ fileName \in FileNames
    /\ versionInt \in Versions
    /\ attachedFiles = <<>>
    /\ files \in SUBSET {Append(f, SidecarSuffix) : f \in FileNames \ {<<>>}}
    /\ unloaded = FALSE
    /\ pending = FALSE
    /\ LET s0 == [conn |-> [l \in Layers |-> NoConn], hml |-> FALSE,
                  hostConn |-> [s \in HostSignals |-> 0],
                  attached |-> FALSE, dirty |-> isDirty,
                  att |-> attachedFiles, files |-> files,
                  features |-> "edited", origin |-> "edited",
                  incoming |-> "edited", raised |-> FALSE,
                  message |-> FALSE, writer |-> "none", written |-> {},
                  reader |-> "none", existed |-> FALSE, resolved |-> FALSE]
           s1 == MemoryLayerSaver_init(s0)
       IN /\ conn = s1.conn
          /\ has_modified_layers = s1.hml
          /\ hostConn = s1.hostConn
          /\ attached = s1.attached
          /\ last = [op |-> "__init__", handled |-> TRUE,
                     eligible |-> FALSE, before |-> FALSE,
                     wasPending |-> FALSE, prevSave |-> "no",
                     writer |-> "none", written |-> {}, reader |-> "none",
                     existed |-> FALSE, resolved |-> FALSE,
                     created |-> FALSE, touched |-> FALSE,
                     raised |-> FALSE, message |-> FALSE]

\* --------------------------------------------------------------- actions
\* The coordinator object exists: from construction until it is collected.
\* Nothing but the collection of the object removes its slot from cleared.
Alive == hostConn["cleared"] > 0

\* The host adds layer l to the project and emits layerWasAdded(l).
AddLayer ==
    \E l \in Layers \ mapLayers :
        /\ Alive
        /\ mapLayers' = mapLayers \cup {l}
        /\ LET on == hostConn["layerWasAdded"] > 0
               st == IF on THEN connect_layer(Self, l) ELSE Self
           IN /\ Becomes(st)
              /\ last' = Obs("layerWasAdded", on, is_saved_layer(l), st)
        /\ UNCHANGED <<saved, fileName, versionInt, unloaded, pending>>

\* The host removes layer l from the project; the layer object is deleted
\* and its signal connections go with it.  No slot of the coordinator is
\* connected to the removal.
RemoveLayer ==
    \E l \in mapLayers :
        /\ Alive
        /\ mapLayers' = mapLayers \ {l}
        /\ LET st == [Self EXCEPT !.conn[l] = NoConn]
           IN /\ Becomes(st)
              /\ last' = Obs("layerRemoved", FALSE, is_saved_layer(l), st)
        /\ pending' = FALSE
        /\ UNCHANGED <<saved, fileName, versionInt, unloaded>>

\* The answer of Settings.is_saved_layer for layer l changes.
ChangeSaved ==
    \E l \in Layers :
        /\ Alive
        /\ saved' = [saved EXCEPT ![l] = ~@]
        /\ last' = Obs("changeSaved", FALSE, saved[l], Self)
        /\ pending' = FALSE
        /\ UNCHANGED <<has_modified_layers, attached, conn, hostConn,
                       mapLayers, isDirty, fileName, versionInt,
                       attachedFiles, files, unloaded>>

\* Layer l commits a change and emits one of its six signals; the slot runs
\* when it is connected to that signal.
Commit ==
    \E l \in mapLayers : \E on \in {conn[l][k] > 0 : k \in MutationKinds} :
        /\ Alive
        /\ LET st == IF on THEN set_project_dirty(Self) ELSE Self
           IN /\ Becomes(st)
              /\ last' = Obs("committed", on, is_saved_layer(l), st)
              /\ pending' = (pending \/ (on /\ is_saved_layer(l)))
        /\ UNCHANGED <<mapLayers, saved, fileName, versionInt, unloaded>>

\* The host gives a project that has no file yet its file name.
SetFileName ==
    /\ Alive
    /\ fileName = <<>>
    /\ fileName' \in FileNames \ {<<>>}
    /\ last' = Obs("setFileName", FALSE, FALSE, Self)
    /\ pending' = FALSE
    /\ UNCHANGED <<has_modified_layers, attached, conn, hostConn, mapLayers,
                   saved, isDirty, versionInt, attachedFiles, files, unloaded>>

\* The project, read from its file, emits readProject.
ReadProject ==
    /\ hostConn["readProject"] > 0
    /\ fileName # <<>>
    /\ \E r \in ReaderOutcomes, c \in Contents : \E i \in Contents \ {c} :
        LET st == load_data(SelfWith(c, i), r)
        IN /\ Becomes(st)
           /\ last' = Obs("readProject", TRUE, FALSE, st)
    /\ pending' = FALSE
    /\ UNCHANGED <<mapLayers, saved, fileName, versionInt, unloaded>>

\* The project, being written to its file, emits writeProject.
WriteProject ==
    /\ hostConn["writeProject"] > 0
    /\ fileName # <<>>
    /\ (has_modified_layers /\ versionInt >= AttachmentVersion)
          => Len(attachedFiles) < MaxAttached
    /\ \E w \in WriterOutcomes, c \in Contents :
        LET st == save_data(SelfWith(c, c), w)
        IN /\ Becomes(st)
           /\ last' = [Obs("writeProject", TRUE, FALSE, st) EXCEPT
                         !.wasPending = pending,
                         !.prevSave = IF last.op = "writeProject"
                                      THEN last.writer ELSE "no"]
    /\ pending' = FALSE
    /\ UNCHANGED <<mapLayers, saved, fileName, versionInt, unloaded>>

\* The project, emptied of its layers, emits cleared.
Cleared ==
    /\ hostConn["cleared"] > 0
    /\ mapLayers = {}
    /\ LET st == on_cleared(Self)
       IN /\ Becomes(st)
          /\ last' = Obs("cleared", TRUE, FALSE, st)
    /\ pending' = FALSE
    /\ UNCHANGED <<mapLayers, saved, fileName, versionInt, unloaded>>

\* The host unloads the plugin.
Unload ==
    /\ ~unloaded
    /\ unloaded' = TRUE
    /\ LET st == unload(Self)
       IN /\ Becomes(st)
          /\ last' = Obs("unload", TRUE, FALSE, st)
    /\ pending' = FALSE
    /\ UNCHANGED <<mapLayers, saved, fileName, versionInt>>

\* The unloaded object is collected: __del__ calls detach once more, and the
\* connections that are left go away with the object.
Del ==
    /\ unloaded
    /\ Alive
    /\ LET st == detach(Self)
       IN /\ Becomes([st EXCEPT !.conn = [l \in Layers |-> NoConn],
                                !.hostConn = [s \in HostSignals |-> 0]])
          /\ last' = Obs("__del__", TRUE, FALSE, st)
    /\ pending' = FALSE
    /\ UNCHANGED <<mapLayers, saved, fileName, versionInt, unloaded>>

Next ==
    \/ AddLayer
    \/ RemoveLayer
    \/ ChangeSaved
    \/ Commit
    \/ SetFileName
    \/ ReadProject
    \/ WriteProject
    \/ Cleared
    \/ Unload
    \/ Del

Spec == Init /\ [][Next]_vars

\* ------------------------------------------- memory_layer_file on its own
\* Sequences over S of length at most n.
RECURSIVE SeqsUpTo(_, _)
SeqsUpTo(S, n) ==
    IF n = 0 THEN {<<>>}
    ELSE LET shorter == SeqsUpTo(S, n - 1)
         IN shorter \cup {Append(q, x) : q \in shorter, x \in S}

\* A constructed coordinator on a project with any file name, any host
\* version and any list of attachments; nothing has been resolved yet.
InitFile ==
    /\ fileName \in FileNames
    /\ versionInt \in Versions
    /\ attachedFiles \in SeqsUpTo(AttachedNames, MaxAttached)
    /\ mapLayers = {}
    /\ saved = [l \in Layers |-> FALSE]
    /\ isDirty = FALSE
    /\ files = {}
    /\ unloaded = FALSE
    /\ pending = FALSE
    /\ has_modified_layers = FALSE
    /\ attached = TRUE
    /\ conn = [l \in Layers |-> NoConn]
    /\ hostConn = [s \in HostSignals |-> 1]
    /\ last = [op |-> "input", path |-> <<>>]

\* self.memory_layer_file() is called and its result observed.
ResolveFile ==
    /\ last' = [op |-> "memory_layer_file",
                path |-> memory_layer_file(attachedFiles)]
    /\ UNCHANGED <<has_modified_layers, attached, conn, hostConn, mapLayers,
                   saved, isDirty, fileName, versionInt, attachedFiles,
                   files, unloaded, pending>>

NextFile == ResolveFile

SpecFile == InitFile /\ [][NextFile]_vars

\* ---------------------------------------------------------------- claims
\* The layers of the project that Settings.is_saved_layer accepts now.
EligibleNow == {l \in mapLayers : saved[l]}

\* The archive file load_data would look at exists.
ArchiveExists ==
    LET name == IF fileName = <<>> THEN <<>>
                ELSE IF versionInt >= AttachmentVersion
                        /\ \E i \in 1..Len(attachedFiles) :
                              EndsWith(attachedFiles[i], AttachmentName)
                     THEN LET i == CHOOSE i \in 1..Len(attachedFiles) :
                                     /\ EndsWith(attachedFiles[i], AttachmentName)
                                     /\ \A j \in 1..(i - 1) :
                                          ~EndsWith(attachedFiles[j], AttachmentName)
                          IN attachedFiles[i]
                     ELSE Append(fileName, SidecarSuffix)
    IN name \in files

\* The number of Writer invocations an observation records.
WriterCalls(o) == IF o.writer = "none" THEN 0 ELSE 1

\* C1: a save request made while the flag is Clean does no I/O: the Writer is
\* not invoked, no attachment is registered, no file appears, the target path
\* is not resolved, and the flag stays Clean.
C1_CleanSaveNoIO ==
    [][(last'.op = "writeProject" /\ ~has_modified_layers)
          => /\ last'.writer = "none"
             /\ ~last'.resolved
             /\ ~last'.raised
             /\ attachedFiles' = attachedFiles
             /\ files' = files
             /\ ~has_modified_layers']_vars

C1_Witness ==
    /\ last.op = "writeProject"
    /\ ~last.before
    /\ ~has_modified_layers
    /\ EligibleNow # {}

\* C2 as stated: a save request made while Dirty invokes the Writer exactly
\* once over exactly the eligible layers, and the flag is Clean when
\* save_data returns.
C2_Original ==
    (last.op = "writeProject" /\ last.before)
        => /\ last.writer # "none"
           /\ last.written = EligibleNow
           /\ (~last.raised => ~has_modified_layers)

\* C2 amended: a save request made while Dirty invokes the Writer exactly once
\* over exactly the eligible layers when there is at least one, and not at all
\* when there is none; the flag is Clean when save_data returns normally; a
\* save request that follows a handled mutation of an eligible layer invokes
\* the Writer once and ends Clean when it returns normally.
C2_DirtySaveWrites ==
    (last.op = "writeProject" /\ last.before)
        => /\ EligibleNow # {} => (last.writer # "none"
                                      /\ last.written = EligibleNow)
           /\ EligibleNow = {} => last.writer = "none"
           /\ ~last.raised => ~has_modified_layers
           /\ last.wasPending => (WriterCalls(last) = 1
                                    /\ (~last.raised => ~has_modified_layers))

C2_Witness ==
    /\ last.op = "writeProject"
    /\ last.before
    /\ last.wasPending
    /\ last.writer = "ok"
    /\ last.written = EligibleNow
    /\ EligibleNow # mapLayers
    /\ ~has_modified_layers

\* C3 as stated: two consecutive save requests invoke the Writer at most once
\* in total, and the second is a no-op.
C3_Original ==
    (last.op = "writeProject" /\ last.prevSave # "no")
        => (IF last.prevSave = "none" THEN 0 ELSE 1) + WriterCalls(last) <= 1

\* C3 amended: of two consecutive save requests, when the first returned
\* normally (its Writer was not invoked or did not fail) the second is a
\* no-op: no Writer call, no path resolution, no attachment, flag unchanged
\* and Clean.
C3_SecondSaveNoOp ==
    (last.op = "writeProject" /\ last.prevSave \in {"none", "ok"})
        => /\ last.writer = "none"
           /\ ~last.resolved
           /\ ~last.created
           /\ ~last.before
           /\ ~has_modified_layers

C3_Witness ==
    /\ last.op = "writeProject"
    /\ last.prevSave = "ok"
    /\ last.writer = "none"

\* C4: whenever set_project_dirty handles one of the six mutation
\* notifications the flag is Dirty afterwards, whatever it was before; a
\* connected layer is connected for all six kinds alike.
C4_DirtyOnMutation ==
    /\ (last.op = "committed" /\ last.handled) => has_modified_layers
    /\ \A l \in Layers : \A k1, k2 \in MutationKinds : conn[l][k1] = conn[l][k2]

C4_Witness ==
    /\ last.op = "committed"
    /\ last.handled
    /\ last.eligible
    /\ ~last.before
    /\ has_modified_layers

\* C5: while the coordinator is attached, an eligible layer added to the
\* project and an eligible layer removed from the project each leave the flag
\* Dirty.
C5_AddRemoveDirty ==
    (last.op \in {"layerWasAdded", "layerRemoved"} /\ last.eligible
        /\ attached /\ ~unloaded)
        => has_modified_layers

\* C6 as stated: the flag goes from Dirty to Clean only in a step that
\* completes a load whose Reader did not fail or a save whose Writer did not
\* fail.
C6_Original ==
    [][(has_modified_layers /\ ~has_modified_layers')
          => \/ last'.op = "readProject" /\ last'.reader # "fail"
             \/ last'.op = "writeProject" /\ last'.writer # "fail"]_vars

\* C6 amended: the flag goes from Dirty to Clean only in a step that handles a
\* load request (whether or not the Reader failed), a save request whose
\* Writer did not fail, or the project-cleared event; a save request whose
\* Writer failed leaves the flag Dirty.
C6_ClearedOnlyBy ==
    [][/\ (has_modified_layers /\ ~has_modified_layers')
            => \/ last'.op = "readProject"
               \/ last'.op = "writeProject" /\ last'.writer # "fail"
               \/ last'.op = "cleared"
       /\ (has_modified_layers /\ last'.op = "writeProject"
             /\ last'.writer = "fail") => has_modified_layers']_vars

C6_Witness ==
    /\ last.op = "readProject"
    /\ last.before
    /\ last.reader = "fail"
    /\ ~has_modified_layers

\* C7: no failure of the Reader or of the Writer is thrown out of a handler:
\* the handler returns normally and the failure is reported to the user.
C7_NoFailureEscapes ==
    (last.reader = "fail" \/ last.writer = "fail")
        => (~last.raised /\ last.message)

\* C8 as stated: a load request invokes the Reader whenever an archive file
\* exists; when none exists the Reader is not invoked, nothing is reported
\* and load_data returns normally.
C8_Original ==
    last.op = "readProject"
        => /\ ArchiveExists => last.reader # "none"
           /\ ~ArchiveExists => (last.reader = "none" /\ ~last.message
                                   /\ ~last.raised)

\* C8 amended: a load request invokes the Reader whenever an archive file
\* exists and the project has at least one eligible layer; when no archive
\* file exists, or no layer is eligible, the Reader is not invoked, nothing
\* is reported and load_data returns normally.
C8_ReaderIffArchive ==
    last.op = "readProject"
        => /\ (ArchiveExists /\ EligibleNow # {}) => last.reader # "none"
           /\ (~ArchiveExists \/ EligibleNow = {})
                 => (last.reader = "none" /\ ~last.message /\ ~last.raised)
           /\ last.existed = ArchiveExists

C8_Witness ==
    /\ last.op = "readProject"
    /\ ArchiveExists
    /\ EligibleNow = {}
    /\ last.reader = "none"

C10_CleanOnClear ==
    [][last'.op = "cleared"
          => /\ ~has_modified_layers'
             /\ UNCHANGED <<conn, hostConn, attached, isDirty, attachedFiles,
                            files, mapLayers, saved>>]_vars

C10_Witness ==
    /\ last.op = "cleared"
    /\ last.before
    /\ ~has_modified_layers

\* C11: immediately after construction the flag equals the project's "has
\* unsaved changes" status, however many eligible layers the connector
\* attached to (and set the flag for) while it was being constructed.
C11_FlagIsProjectStatus ==
    last.op = "__init__" => has_modified_layers = isDirty

\* A coordinator constructed on a clean project that holds an eligible layer:
\* the layer is connected and the flag is Clean.
C11_Witness ==
    /\ last.op = "__init__"
    /\ \E l \in mapLayers :
          saved[l] /\ \A k \in MutationKinds : conn[l][k] > 0
    /\ ~isDirty
    /\ ~has_modified_layers

\* The positions of the attachments whose name ends with layers.mldata.
ArchiveAttachments ==
    {i \in 1..Len(attachedFiles) : EndsWith(attachedFiles[i], AttachmentName)}

\* C12 as stated: on a host that supports attachments the resolved location
\* is an attachment ending with layers.mldata when there is one and
\* <project-file-path>.mldata when there is none; on a host without
\* attachment support it is always <project-file-path>.mldata.
C12_Original ==
    last.op = "memory_layer_file" =>
        IF versionInt >= AttachmentVersion /\ ArchiveAttachments # {}
        THEN \E i \in ArchiveAttachments : last.path = attachedFiles[i]
        ELSE last.path = Append(fileName, SidecarSuffix)

\* C12, amended: the statement holds for a project that has a file name, and
\* the attachment returned is the first one ending with layers.mldata; for
\* a project without a file name the empty path is returned, whatever the
\* host version and the attachments.
C12_ArchiveLocation ==
    last.op = "memory_layer_file" =>
        IF fileName = <<>> THEN last.path = <<>>
        ELSE IF versionInt >= AttachmentVersion /\ ArchiveAttachments # {}
             THEN /\ last.path \in {attachedFiles[i] : i \in ArchiveAttachments}
                  /\ \A i \in ArchiveAttachments :
                        attachedFiles[i] # last.path =>
                            \E j \in ArchiveAttachments :
                                j < i /\ attachedFiles[j] = last.path
             ELSE last.path = Append(fileName, SidecarSuffix)

\* A named project on a host with attachment support whose first attachment
\* is no archive and a later one is: the later one is the location.
C12_Witness ==
    /\ last.op = "memory_layer_file"
    /\ fileName # <<>>
    /\ versionInt >= AttachmentVersion
    /\ Len(attachedFiles) >= 2
    /\ ~EndsWith(attachedFiles[1], AttachmentName)
    /\ EndsWith(last.path, AttachmentName)

\* C13: a save request whose Writer fails was made in Dirty and leaves the
\* flag Dirty and the feature content of the layers as it was; the save
\* request that follows it with no event in between invokes the Writer again.
C13_FailedSaveStaysDirty ==
    /\ (last.op = "writeProject" /\ last.writer = "fail")
          => last.before /\ has_modified_layers /\ ~last.touched
    /\ (last.op = "writeProject" /\ last.prevSave = "fail")
          => last.before /\ last.writer # "none"

\* A save request that failed, followed at once by one whose Writer ran and
\* succeeded.
C13_Witness ==
    /\ last.op = "writeProject"
    /\ last.prevSave = "fail"
    /\ last.writer = "ok"
    /\ ~has_modified_layers

\* C14: when load_data has returned the flag is Clean, whether the archive
\* file was absent, present with no eligible layer, read, or read with a
\* failure, and whatever the flag was before (Dirty from the layers that
\* were connected while the project was read).
C14_CleanAfterLoad ==
    last.op = "readProject" => ~has_modified_layers /\ ~last.raised

\* A load request handled in Dirty with an eligible layer connected and the
\* archive present: the Reader ran, succeeded, and the flag is Clean.
C14_Witness ==
    /\ last.op = "readProject"
    /\ last.before
    /\ last.existed
    /\ last.reader = "ok"
    /\ \E l \in EligibleNow : \A k \in MutationKinds : conn[l][k] > 0
    /\ ~has_modified_layers

\* unload() has run to its last disconnection (line 60).
UnloadCompleted == unloaded /\ hostConn["writeProject"] = 0

\* C15: once unload has completed, no host notification (layer added,
\* project read, project written, project cleared) and no layer mutation
\* notification runs a handler of the coordinator or changes the flag.
C15_UnloadUndoesAll ==
    (/\ UnloadCompleted
     /\ last.op \in {"layerWasAdded", "readProject", "writeProject",
                     "cleared", "committed"})
        => ~last.handled /\ has_modified_layers = last.before

\* C16: detach on a connector that is not attached does nothing, and after a
\* detach has completed the connector is no longer attached, so that the
\* detach run from __del__ after unload disconnects nothing: neither the
\* layer-added signal nor any layer, and so it cannot fail.
C16_DetachIdempotent ==
    /\ (last.op = "unload" /\ ~last.raised) => ~attached
    /\ last.op = "__del__" => ~last.raised

\* C17: connect and disconnect are symmetric.  detach disconnects exactly
\* the layers that were connected and still are: it never disconnects a
\* layer that was not connected (which would make the disconnection fail),
\* and when it is done no layer is connected any more, even if a layer's
\* eligibility changed or a layer was removed since it was connected.
C17_ConnectSymmetric ==
    last.op = "unload" =>
        /\ ~last.raised
        /\ \A l \in Layers : \A k \in MutationKinds : conn[l][k] = 0

\* C18: a mutation notification handled by set_project_dirty sets the flag
\* Dirty and marks the project as having unsaved changes in the same step;
\* a layer being connected (on layerWasAdded) or disconnected (by detach, in
\* unload and __del__) sets the coordinator's flag only and leaves the
\* project's status as it was.
C18_DirtyMarksProject ==
    [][/\ (last'.op = "committed" /\ last'.handled)
            => has_modified_layers' /\ isDirty'
       /\ (last'.op = "layerWasAdded" /\ last'.handled /\ last'.eligible)
            => has_modified_layers'
       /\ (last'.op = "unload" /\ ~last'.raised /\ EligibleNow # {})
            => has_modified_layers'
       /\ last'.op \in {"layerWasAdded", "unload", "__del__"}
            => isDirty' = isDirty]_vars

\* An eligible layer was added to a clean project and connected: the flag is
\* Dirty and the project is still clean.
C18_Witness ==
    /\ last.op = "layerWasAdded"
    /\ last.handled
    /\ last.eligible
    /\ ~last.before
    /\ has_modified_layers
    /\ ~isDirty

====
